---- MODULE Spec2Model ----
(***************************************************************************)
(* Model of the Google Search Console dashboard: the analyses of           *)
(* modules/ai_analyzer.py (AIAnalyzer), the branded split of               *)
(* modules/gsc_data.py (GSCDataManager) and the AI tab of app.py.          *)
(*                                                                         *)
(* Representation.  A string is a sequence of character codes, a date a    *)
(* one-element sequence holding its day number, so that every dimension    *)
(* value can be compared and ordered; NaN / a missing value is None.       *)
(* ctr is kept in hundredths (0.05 is 5) and position in tenths (3 is 30,  *)
(* 4.5 is 45).  A mean is kept exact as the pair (sum, n) and compared by  *)
(* cross-multiplication; a percentage is the exact fraction num/den.       *)
(* A text is a sequence of parts [t |-> kind, v |-> payload].              *)
(***************************************************************************)
EXTENDS Integers, Sequences, FiniteSets, TLC

VARIABLES
    data,           \* the caller's Dataset (a DataFrame: sequence of rows)
    previous_data,  \* the caller's previous-period Dataset (compare_periods)
    secret,         \* st.secrets holds OPENAI_API_KEY
    client,         \* AIAnalyzer.client is set (not None)
    api_key,        \* openai.api_key is set
    call,           \* the operation invoked last
    arg,            \* its inputs
    frame,          \* the frames / statistics it computed locally
    prompt,         \* the prompt it built for the Narrative Generator
    out,            \* what it returned
    exc,            \* the exception it let propagate ("none" if it returned)
    generator_calls,\* the ChatCompletion.create calls it made
    generator_outcome, \* how the call ended: "none" (not called), "ok", "error"
    response,       \* what the Metrics Source answers a query with
    source_calls,   \* the searchanalytics().query(...).execute() calls it made
    st_error,       \* the message it showed with st.error ("none" if none)
    credentials,    \* GSCAuthenticator.credentials
    service,        \* GSCAuthenticator.service
    session_state   \* st.session_state['gsc_credentials']

vars == <<data, previous_data, secret, client, api_key, call, arg, frame, prompt, out, exc,
          generator_calls, generator_outcome, response, source_calls, st_error,
          credentials, service, session_state>>

----------------------------------------------------------------------------
(* Bounds of the model *)

MaxRich == 2
MaxFill == 11
MaxDays == 5
MaxKeywords == 2
MaxPrevious == 1
MaxRows == 2
MaxTokens == 3

----------------------------------------------------------------------------
(* Values *)

None == <<-1>>

Min(a, b) == IF a <= b THEN a ELSE b
Max(a, b) == IF a >= b THEN a ELSE b

Rec(d, q, p, c, i, r, pos) ==
    [date |-> d, query |-> q, page |-> p, clicks |-> c, impressions |-> i,
     ctr |-> r, position |-> pos]

NoFrame == [kind |-> "none"]
NoPrompt == [kind |-> "none"]
NoReturn == [kind |-> "none"]
NoResponse == [kind |-> "none"]

NoCredentials == [kind |-> "none"]
NoService == [kind |-> "none"]
NoSession == [kind |-> "none"]

Text(parts) == [kind |-> "text", parts |-> parts]

\* the literals of ai_analyzer.py lines 34/81/130/215/270 and 167
NotAvailableText == Text(<<[t |-> "notice", v |-> "Dati non disponibili per l'analisi"]>>)
NotAvailableCompareText == Text(<<[t |-> "notice", v |-> "Dati non disponibili per il confronto"]>>)

----------------------------------------------------------------------------
(* The Narrative Generator call *)

Contents == {"analisi"}
Errors == {"quota"}

\* ChatCompletion.create returns a response or raises
GeneratorOutcomes == {"ok", "error"}

\* the error path returning the marker without str(e)
GetAIResponse_MarkerOnly(outcome) ==
    IF outcome = "ok"
    THEN {Text(<<[t |-> "content", v |-> c]>>) : c \in Contents}
    ELSE {Text(<<[t |-> "error_marker", v |-> "Errore nell'analisi AI: "]>>)}

\* _get_ai_response: the content of the first choice, or, on any exception,
\* the marker followed by str(e)
GetAIResponse(outcome) ==
    IF outcome = "ok"
    THEN {Text(<<[t |-> "content", v |-> c]>>) : c \in Contents}
    ELSE {Text(<<[t |-> "error_marker", v |-> "Errore nell'analisi AI: "],
                 [t |-> "error_message", v |-> e]>>) : e \in Errors}

----------------------------------------------------------------------------
(* DataFrame operations *)

RECURSIVE SumField(_, _)
SumField(rows, f) ==
    IF rows = <<>> THEN 0 ELSE rows[1][f] + SumField(Tail(rows), f)

\* DataFrame(list of dicts): a column exists iff some row carries the key
HasColumn(df, col) == \E i \in 1..Len(df) : df[i][col] # None

RECURSIVE LexLess(_, _)
LexLess(a, b) ==
    IF a = <<>> THEN b # <<>>
    ELSE IF b = <<>> THEN FALSE
    ELSE IF a[1] # b[1] THEN a[1] < b[1]
    ELSE LexLess(Tail(a), Tail(b))

RECURSIVE SortedKeys(_)
SortedKeys(S) ==
    IF S = {} THEN <<>>
    ELSE LET m == CHOOSE x \in S : \A y \in S \ {x} : LexLess(x, y)
         IN <<m>> \o SortedKeys(S \ {m})

\* groupby drops the rows whose key is NaN (dropna=True)
GroupKeys(df, col) == {df[i][col] : i \in 1..Len(df)} \ {None}

Members(df, col, k) == SelectSeq(df, LAMBDA r : r[col] = k)

\* .agg({'clicks': 'sum', 'impressions': 'sum', 'ctr': 'mean', 'position': 'mean'})
AggRow(k, rows) ==
    [key |-> k,
     clicks |-> SumField(rows, "clicks"),
     impressions |-> SumField(rows, "impressions"),
     ctr_sum |-> SumField(rows, "ctr"),
     position_sum |-> SumField(rows, "position"),
     n |-> Len(rows)]

\* df.groupby(col).agg(...).reset_index(): one row per key, keys ascending
GroupBy(df, col) ==
    LET ks == SortedKeys(GroupKeys(df, col))
    IN [i \in 1..Len(ks) |-> AggRow(ks[i], Members(df, col, ks[i]))]

\* DataFrame.head(n) is iloc[:n]
HeadRows(s, n) ==
    SubSeq(s, 1, IF n >= 0 THEN Min(n, Len(s)) ELSE Max(0, Len(s) + n))

ByClicksDesc(a, b) == a.clicks > b.clicks
ByImpressionsDesc(a, b) == a.impressions > b.impressions
\* mean position of a below mean position of b
PositionLess(a, b) == a.position_sum * b.n < b.position_sum * a.n
CtrLess(a, b) == a.ctr_sum * b.n < b.ctr_sum * a.n
\* sort_values(['impressions', 'position'], ascending=[False, True])
ByImpressionsDescPositionAsc(a, b) ==
    \/ a.impressions > b.impressions
    \/ a.impressions = b.impressions /\ PositionLess(a, b)

\* the orders the code sorts by: row a comes strictly before row b
Before(order, a, b) ==
    CASE order = "clicks_desc" -> ByClicksDesc(a, b)
      [] order = "impressions_desc" -> ByImpressionsDesc(a, b)
      [] order = "impressions_desc_position_asc" -> ByImpressionsDescPositionAsc(a, b)
      [] order = "ctr_asc" -> CtrLess(a, b)

\* sort_values: rows that the order does not separate keep their order (below
\* 16 rows numpy's quicksort is an insertion sort).  Row i lands after the
\* rows ordered before it and the earlier rows it ties with.
SortRows(s, order) ==
    LET n == Len(s)
        Rank(i) == 1 + Cardinality({j \in 1..n :
                        \/ Before(order, s[j], s[i])
                        \/ ~Before(order, s[i], s[j]) /\ j < i})
    IN [k \in 1..n |-> s[CHOOSE i \in 1..n : Rank(i) = k]]

----------------------------------------------------------------------------
(* AIAnalyzer.analyze_keyword_opportunities *)

PositionLow == 30
PositionHigh == 100
CtrThreshold == 5
HeadLimit == 10
DefaultMinImpressions == 100

\* the filter with position >= 3 in place of position > 3
IsOpportunity_NonStrict(q, min_impressions) ==
    /\ q.impressions >= min_impressions
    /\ q.position_sum >= PositionLow * q.n
    /\ q.ctr_sum < CtrThreshold * q.n

\* query_data[(impressions >= min_impressions) & (position > 3) & (ctr < 0.05)]
IsOpportunity(q, min_impressions) ==
    /\ q.impressions >= min_impressions
    /\ q.position_sum > PositionLow * q.n
    /\ q.ctr_sum < CtrThreshold * q.n

\* the filter with position < 10 in place of position <= 10
IsHighPotential_Strict(q, min_impressions) ==
    /\ q.position_sum < PositionHigh * q.n
    /\ q.position_sum > PositionLow * q.n
    /\ q.impressions >= min_impressions

\* query_data[(position <= 10) & (position > 3) & (impressions >= min_impressions)]
IsHighPotential(q, min_impressions) ==
    /\ q.position_sum <= PositionHigh * q.n
    /\ q.position_sum > PositionLow * q.n
    /\ q.impressions >= min_impressions

Opportunities(query_data, min_impressions) ==
    HeadRows(SortRows(SelectSeq(query_data, LAMBDA q : IsOpportunity(q, min_impressions)),
                  "impressions_desc"),
         HeadLimit)

HighPotential(query_data, min_impressions) ==
    HeadRows(SortRows(SelectSeq(query_data, LAMBDA q : IsHighPotential(q, min_impressions)),
                  "impressions_desc_position_asc"),
         HeadLimit)

MinImpressionsInputs == {DefaultMinImpressions, 150}

\* an operation that neither queries the Metrics Source nor shows an error
NoFetch ==
    /\ source_calls' = 0
    /\ st_error' = "none"

\* the early return of every analysis: no data or no client
Unavailable(text) ==
    /\ frame' = NoFrame
    /\ prompt' = NoPrompt
    /\ out' = text
    /\ exc' = "none"
    /\ generator_calls' = 0
    /\ NoFetch
    /\ generator_outcome' = "none"

\* an exception raised before the prompt is built propagates to the caller
Raises(e) ==
    /\ frame' = NoFrame
    /\ prompt' = NoPrompt
    /\ out' = NoReturn
    /\ exc' = e
    /\ generator_calls' = 0
    /\ NoFetch
    /\ generator_outcome' = "none"

\* ChatCompletion.create raises when openai.api_key is not set
OutcomesWith(key) == IF key THEN GeneratorOutcomes ELSE {"error"}

\* return self._get_ai_response(prompt)
Asks(f, p) ==
    /\ frame' = f
    /\ prompt' = p
    /\ \E outcome \in OutcomesWith(api_key) :
          /\ generator_outcome' = outcome
          /\ \E o \in GetAIResponse(outcome) : out' = o
    /\ exc' = "none"
    /\ generator_calls' = 1
    /\ NoFetch

analyze_keyword_opportunities ==
    \E min_impressions \in MinImpressionsInputs :
        /\ call' = "analyze_keyword_opportunities"
        /\ arg' = [min_impressions |-> min_impressions]
        /\ UNCHANGED <<data, previous_data, secret, client, api_key, response,
                     credentials, service, session_state>>
        /\ IF data = <<>> \/ ~client
           THEN Unavailable(NotAvailableText)
           ELSE IF ~HasColumn(data, "query")
           THEN Raises("KeyError")
           ELSE LET query_data == GroupBy(data, "query")
                IN Asks([kind |-> "query_data", rows |-> query_data],
                        [kind |-> "keyword_opportunities",
                         opportunities |-> Opportunities(query_data, min_impressions),
                         high_potential |-> HighPotential(query_data, min_impressions)])

----------------------------------------------------------------------------
(* AIAnalyzer._calculate_trend and AIAnalyzer.analyze_traffic_trends *)

TrendThresholdTenths == 3
DefaultPeriodDays == 30

RECURSIVE SumSeq(_)
SumSeq(s) == IF s = <<>> THEN 0 ELSE s[1] + SumSeq(Tail(s))

\* pd.Series(x).corr(pd.Series(y)) for x = range(len(y)): the Pearson
\* correlation cov / sqrt(vx * vy), kept as its three integer terms (each
\* scaled by n); it is NaN when a variance is 0
Correlation(y) ==
    LET n == Len(y)
        x == [i \in 1..n |-> i - 1]
        sx == SumSeq(x)
        sy == SumSeq(y)
    IN [cov |-> n * SumSeq([i \in 1..n |-> x[i] * y[i]]) - sx * sy,
        vx |-> n * SumSeq([i \in 1..n |-> x[i] * x[i]]) - sx * sx,
        vy |-> n * SumSeq([i \in 1..n |-> y[i] * y[i]]) - sy * sy]

IsNaN(c) == c.vx = 0 \/ c.vy = 0

\* correlation > t/10 and correlation < -t/10; a comparison with NaN is False
CorrelationAbove(c, t) ==
    ~IsNaN(c) /\ c.cov > 0 /\ 100 * c.cov * c.cov > t * t * c.vx * c.vy
CorrelationBelowMinus(c, t) ==
    ~IsNaN(c) /\ c.cov < 0 /\ 100 * c.cov * c.cov > t * t * c.vx * c.vy

\* the classification with the two labels exchanged
CalculateTrend_Swapped(series) ==
    IF Len(series) < 2 THEN "Dati insufficienti"
    ELSE LET correlation == Correlation(series)
         IN IF CorrelationAbove(correlation, TrendThresholdTenths) THEN "Decrescente"
            ELSE IF CorrelationBelowMinus(correlation, TrendThresholdTenths) THEN "Crescente"
            ELSE "Stabile"

CalculateTrend(series) ==
    IF Len(series) < 2 THEN "Dati insufficienti"
    ELSE LET correlation == Correlation(series)
         IN IF CorrelationAbove(correlation, TrendThresholdTenths) THEN "Crescente"
            ELSE IF CorrelationBelowMinus(correlation, TrendThresholdTenths) THEN "Decrescente"
            ELSE "Stabile"

Column(rows, f) == [i \in 1..Len(rows) |-> rows[i][f]]

RECURSIVE ProductN(_)
ProductN(rows) == IF rows = <<>> THEN 1 ELSE rows[1].n * ProductN(Tail(rows))

\* the mean over the rows of their means sum/n, as the fraction num/den
MeanOfMeans(rows, f) ==
    LET all == ProductN(rows)
    IN [num |-> SumSeq([i \in 1..Len(rows) |-> rows[i][f] * (all \div rows[i].n)]),
        den |-> Len(rows) * all]

\* idxmax / idxmin: the first row holding the largest / smallest clicks
IdxMax(rows) ==
    CHOOSE i \in 1..Len(rows) :
        /\ \A j \in 1..Len(rows) : rows[j].clicks <= rows[i].clicks
        /\ \A j \in 1..(i - 1) : rows[j].clicks < rows[i].clicks
IdxMin(rows) ==
    CHOOSE i \in 1..Len(rows) :
        /\ \A j \in 1..Len(rows) : rows[j].clicks >= rows[i].clicks
        /\ \A j \in 1..(i - 1) : rows[j].clicks > rows[i].clicks

\* _calculate_trend applied to the clicks of the caller's rows
calculate_trend ==
    /\ call' = "_calculate_trend"
    /\ arg' = [series |-> Column(data, "clicks")]
    /\ UNCHANGED <<data, previous_data, secret, client, api_key, response,
                 credentials, service, session_state>>
    /\ frame' = NoFrame
    /\ prompt' = NoPrompt
    /\ generator_calls' = 0
    /\ generator_outcome' = "none"
    /\ NoFetch
    /\ out' = Text(<<[t |-> "trend", v |-> CalculateTrend(Column(data, "clicks"))]>>)
    /\ exc' = "none"

\* analyze_traffic_trends testing only self.client before it groups
analyze_traffic_trends_NoEmptyCheck ==
    \E period_days \in {DefaultPeriodDays} :
        /\ call' = "analyze_traffic_trends"
        /\ arg' = [period_days |-> period_days]
        /\ UNCHANGED <<data, previous_data, secret, client, api_key, response,
                     credentials, service, session_state>>
        /\ IF ~client
           THEN Unavailable(NotAvailableText)
           ELSE IF ~HasColumn(data, "date")
           THEN Raises("KeyError")
           ELSE LET daily_data == GroupBy(data, "date")
                IN Asks([kind |-> "daily_data", rows |-> daily_data],
                        [kind |-> "traffic_trends", period_days |-> period_days,
                         stats |-> [total_clicks |-> SumField(daily_data, "clicks")]])

analyze_traffic_trends ==
    \E period_days \in {DefaultPeriodDays} :
        /\ call' = "analyze_traffic_trends"
        /\ arg' = [period_days |-> period_days]
        /\ UNCHANGED <<data, previous_data, secret, client, api_key, response,
                     credentials, service, session_state>>
        /\ IF data = <<>> \/ ~client
           THEN Unavailable(NotAvailableText)
           ELSE IF ~HasColumn(data, "date")
           THEN Raises("KeyError")
           ELSE LET daily_data == GroupBy(data, "date")
                    stats ==
                        [total_clicks |-> SumField(daily_data, "clicks"),
                         avg_daily_clicks |-> [num |-> SumField(daily_data, "clicks"),
                                               den |-> Len(daily_data)],
                         clicks_trend |-> CalculateTrend(Column(daily_data, "clicks")),
                         ctr_avg |-> MeanOfMeans(daily_data, "ctr_sum"),
                         position_avg |-> MeanOfMeans(daily_data, "position_sum"),
                         best_day |-> daily_data[IdxMax(daily_data)].key,
                         worst_day |-> daily_data[IdxMin(daily_data)].key]
                IN Asks([kind |-> "daily_data", rows |-> daily_data],
                        [kind |-> "traffic_trends", period_days |-> period_days,
                         stats |-> stats])

----------------------------------------------------------------------------
(* AIAnalyzer.analyze_content_performance *)

NLargestLimit == 10
NSmallestLimit == 10

\* DataFrame.nlargest(n, column): the n first rows of the descending order,
\* the first occurrences first among equal values; nothing for n <= 0
NLargest(rows, n, order) ==
    IF n <= 0 THEN <<>> ELSE HeadRows(SortRows(rows, order), n)

\* DataFrame.nsmallest(n, column): the same along the ascending order
NSmallest(rows, n, order) ==
    IF n <= 0 THEN <<>> ELSE HeadRows(SortRows(rows, order), n)

\* nlargest that cuts one row too early
TopPages_OffByOne(page_data) == NLargest(page_data, NLargestLimit - 1, "clicks_desc")

\* page_data.nlargest(10, 'clicks')
TopPages(page_data) == NLargest(page_data, NLargestLimit, "clicks_desc")

\* page_data[page_data['clicks'] > 0].nsmallest(10, 'ctr')
BottomPages(page_data) ==
    NSmallest(SelectSeq(page_data, LAMBDA r : r.clicks > 0), NSmallestLimit, "ctr_asc")

\* analyze_content_performance testing only data.empty before it groups
analyze_content_performance_NoClientCheck ==
    /\ call' = "analyze_content_performance"
    /\ arg' = [none |-> TRUE]
    /\ UNCHANGED <<data, previous_data, secret, client, api_key, response,
                 credentials, service, session_state>>
    /\ IF data = <<>>
       THEN Unavailable(NotAvailableText)
       ELSE IF ~HasColumn(data, "page")
       THEN Raises("KeyError")
       ELSE LET page_data == GroupBy(data, "page")
            IN Asks([kind |-> "page_data", rows |-> page_data],
                    [kind |-> "content_performance",
                     top_pages |-> TopPages(page_data),
                     bottom_pages |-> BottomPages(page_data)])

analyze_content_performance ==
    /\ call' = "analyze_content_performance"
    /\ arg' = [none |-> TRUE]
    /\ UNCHANGED <<data, previous_data, secret, client, api_key, response,
                 credentials, service, session_state>>
    /\ IF data = <<>> \/ ~client
       THEN Unavailable(NotAvailableText)
       ELSE IF ~HasColumn(data, "page")
       THEN Raises("KeyError")
       ELSE LET page_data == GroupBy(data, "page")
            IN Asks([kind |-> "page_data", rows |-> page_data],
                    [kind |-> "content_performance",
                     top_pages |-> TopPages(page_data),
                     bottom_pages |-> BottomPages(page_data)])

----------------------------------------------------------------------------
(* app.py main: the Overview and Performance tabs *)

TopQueriesLimit == 10

\* the demo GSCAnalytics.get_search_analytics fills every field of every row
Complete(df) ==
    \A i \in 1..Len(df) : \A col \in {"date", "query", "page"} : df[i][col] # None

\* groupby('query').agg(...).sort_values('clicks', ascending=False).head(10)
TopQueries(query_data) == HeadRows(SortRows(query_data, "clicks_desc"), TopQueriesLimit)

\* tab1 and tab2 compute their frames only if not data.empty
main_tabs ==
    /\ Complete(data)
    /\ call' = "main"
    /\ arg' = [none |-> TRUE]
    /\ UNCHANGED <<data, previous_data, secret, client, api_key, response,
                 credentials, service, session_state>>
    /\ prompt' = NoPrompt
    /\ out' = NoReturn
    /\ exc' = "none"
    /\ generator_calls' = 0
    /\ NoFetch
    /\ generator_outcome' = "none"
    /\ IF data = <<>>
       THEN frame' = NoFrame
       ELSE frame' = [kind |-> "main",
                      daily_data |-> GroupBy(data, "date"),
                      rows |-> GroupBy(data, "query"),
                      top_queries |-> TopQueries(GroupBy(data, "query"))]

----------------------------------------------------------------------------
(* The branded split: AIAnalyzer.analyze_branded_traffic and                *)
(* GSCDataManager.get_branded_vs_nonbranded                                 *)

Pipe == 124
Dot == 46

\* str.lower() on the letters A..Z
LowerChar(c) == IF c >= 65 /\ c <= 90 THEN c + 32 ELSE c
Lower(str) == [i \in 1..Len(str) |-> LowerChar(str[i])]

\* '|'.join(keywords)
RECURSIVE Join(_)
Join(keywords) ==
    IF keywords = <<>> THEN <<>>
    ELSE IF Len(keywords) = 1 THEN keywords[1]
    ELSE keywords[1] \o <<Pipe>> \o Join(Tail(keywords))

\* the alternatives of a regular expression: its parts between the '|'
RECURSIVE Alternatives(_)
Alternatives(pattern) ==
    IF \A i \in 1..Len(pattern) : pattern[i] # Pipe THEN {pattern}
    ELSE LET cut == CHOOSE i \in 1..Len(pattern) :
                        pattern[i] = Pipe /\ \A j \in 1..(i - 1) : pattern[j] # Pipe
         IN {SubSeq(pattern, 1, cut - 1)}
            \cup Alternatives(SubSeq(pattern, cut + 1, Len(pattern)))

\* the alternative matches str from position start on: '.' matches any
\* character, any other character of the model's alphabet itself
MatchesAt(alt, str, start, ignorecase) ==
    /\ start + Len(alt) - 1 <= Len(str)
    /\ \A j \in 1..Len(alt) :
          \/ alt[j] = Dot
          \/ alt[j] = str[start + j - 1]
          \/ ignorecase /\ LowerChar(alt[j]) = LowerChar(str[start + j - 1])

\* re.search(pattern, str)
Search(pattern, str, ignorecase) ==
    \E alt \in Alternatives(pattern) :
        \E start \in 1..(Len(str) + 1) : MatchesAt(alt, str, start, ignorecase)

\* Series.str.contains(pattern, na=False): regex=True, NaN gives False
StrContains(value, pattern, ignorecase) ==
    IF value = None THEN FALSE ELSE Search(pattern, value, ignorecase)

\* data['query'].str.lower().str.contains('|'.join(kw.lower() ...), na=False)
IsBrandedAI(query, brand_keywords) ==
    StrContains(IF query = None THEN None ELSE Lower(query),
                Join([i \in 1..Len(brand_keywords) |-> Lower(brand_keywords[i])]),
                FALSE)

\* df['query'].str.contains('|'.join(brand_keywords), case=False, na=False)
IsBrandedGSC(query, brand_keywords) ==
    StrContains(query, Join(brand_keywords), TRUE)

\* frame.agg({'clicks': 'sum', 'impressions': 'sum', 'ctr': 'mean',
\* 'position': 'mean'}); the mean of no rows is NaN, the fraction 0/0
SegmentStats(rows) ==
    [clicks |-> SumField(rows, "clicks"),
     impressions |-> SumField(rows, "impressions"),
     ctr |-> [num |-> SumField(rows, "ctr"), den |-> Len(rows)],
     position |-> [num |-> SumField(rows, "position"), den |-> Len(rows)],
     n |-> Len(rows)]

\* the percentage computed without its guard
BrandedPercentage_Unguarded(branded_clicks, total_clicks) ==
    [num |-> branded_clicks * 100, den |-> total_clicks]

\* (branded / total * 100) if total > 0 else 0
BrandedPercentage(branded_clicks, total_clicks) ==
    IF total_clicks > 0
    THEN [num |-> branded_clicks * 100, den |-> total_clicks]
    ELSE [num |-> 0, den |-> 1]

\* data['is_branded'] = ...: the column is added to the caller's frame
WithIsBranded(df, brand_keywords) ==
    [i \in 1..Len(df) |->
        ("is_branded" :> IsBrandedAI(df[i].query, brand_keywords)) @@ df[i]]

analyze_branded_traffic(KeywordInputs) ==
    \E brand_keywords \in KeywordInputs :
        /\ call' = "analyze_branded_traffic"
        /\ arg' = [brand_keywords |-> brand_keywords]
        /\ UNCHANGED <<previous_data, secret, client, api_key, response,
                     credentials, service, session_state>>
        /\ IF data = <<>> \/ ~client
           THEN UNCHANGED data /\ Unavailable(NotAvailableText)
           ELSE IF ~HasColumn(data, "query")
           THEN UNCHANGED data /\ Raises("KeyError")
           ELSE LET marked == WithIsBranded(data, brand_keywords)
                    branded_stats ==
                        SegmentStats(SelectSeq(marked, LAMBDA r : r.is_branded))
                    nonbranded_stats ==
                        SegmentStats(SelectSeq(marked, LAMBDA r : ~r.is_branded))
                    total_clicks == branded_stats.clicks + nonbranded_stats.clicks
                IN /\ data' = marked
                   /\ Asks([kind |-> "branded"],
                           [kind |-> "branded_traffic",
                            branded_stats |-> branded_stats,
                            nonbranded_stats |-> nonbranded_stats,
                            branded_percentage |->
                                BrandedPercentage(branded_stats.clicks, total_clicks),
                            brand_keywords |-> brand_keywords])

----------------------------------------------------------------------------
(* AIAnalyzer.compare_periods *)

\* _calculate_period_stats: sums and means, each as a fraction
CalculatePeriodStats(df) ==
    [clicks |-> [num |-> SumField(df, "clicks"), den |-> 1],
     impressions |-> [num |-> SumField(df, "impressions"), den |-> 1],
     ctr |-> [num |-> SumField(df, "ctr"), den |-> Len(df)],
     position |-> [num |-> SumField(df, "position"), den |-> Len(df)]]

\* ((current - previous) / previous) * 100
PercentChange(current, previous) ==
    [num |-> (current.num * previous.den - previous.num * current.den) * 100,
     den |-> previous.num * current.den]

\* the variations guarded by the current value in place of the previous one
Changes_GuardsCurrent(current_stats, previous_stats) ==
    [key \in {k \in DOMAIN current_stats :
                 k \in DOMAIN previous_stats /\ current_stats[k].num # 0}
        |-> PercentChange(current_stats[key], previous_stats[key])]

\* for key in current_stats:
\*     if key in previous_stats and previous_stats[key] != 0: changes[key] = ...
Changes(current_stats, previous_stats) ==
    [key \in {k \in DOMAIN current_stats :
                 k \in DOMAIN previous_stats /\ previous_stats[k].num # 0}
        |-> PercentChange(current_stats[key], previous_stats[key])]

compare_periods ==
    /\ call' = "compare_periods"
    /\ arg' = [none |-> TRUE]
    /\ UNCHANGED <<data, previous_data, secret, client, api_key, response,
                 credentials, service, session_state>>
    /\ IF data = <<>> \/ previous_data = <<>> \/ ~client
       THEN Unavailable(NotAvailableCompareText)
       ELSE LET current_stats == CalculatePeriodStats(data)
                previous_stats == CalculatePeriodStats(previous_data)
            IN Asks([kind |-> "period_stats"],
                    [kind |-> "compare_periods",
                     current_stats |-> current_stats,
                     previous_stats |-> previous_stats,
                     changes |-> Changes(current_stats, previous_stats)])

----------------------------------------------------------------------------
(* AIAnalyzer._prepare_data_summary and AIAnalyzer.custom_analysis *)

TopSummaryQueries == 5

\* data[col].nunique() if col in data.columns else 0
NUnique(df, col) == Cardinality(GroupKeys(df, col))

\* f"{data['date'].min()} - {data['date'].max()}" if 'date' in data.columns
\* else "N/A"
DateRange(df) ==
    IF HasColumn(df, "date")
    THEN LET days == SortedKeys(GroupKeys(df, "date"))
         IN [na |-> FALSE, min |-> days[1], max |-> days[Len(days)]]
    ELSE [na |-> TRUE]

\* groupby('query')['clicks'].sum().sort_values(ascending=False).head(5)
TopQueriesByClicks(df, n) ==
    LET top == HeadRows(SortRows(GroupBy(df, "query"), "clicks_desc"), n)
    IN [i \in 1..Len(top) |-> [query |-> top[i].key, clicks |-> top[i].clicks]]

\* the digest computed without the test of data.empty
PrepareDataSummary_NoEmptyCheck(df) ==
    [t |-> "digest",
     v |-> [date_range |-> DateRange(df),
            total_clicks |-> SumField(df, "clicks"),
            total_impressions |-> SumField(df, "impressions"),
            avg_ctr |-> [num |-> SumField(df, "ctr"), den |-> Len(df)],
            avg_position |-> [num |-> SumField(df, "position"), den |-> Len(df)],
            unique_queries |-> NUnique(df, "query"),
            unique_pages |-> NUnique(df, "page"),
            top_queries |-> IF HasColumn(df, "query")
                            THEN TopQueriesByClicks(df, TopSummaryQueries)
                            ELSE <<>>]]

\* the digest of the Dataset: period, totals, averages, top queries
PrepareDataSummary(df) ==
    IF df = <<>>
    THEN [t |-> "no_data", v |-> "Nessun dato disponibile"]
    ELSE [t |-> "digest",
          v |-> [date_range |-> DateRange(df),
                 total_clicks |-> SumField(df, "clicks"),
                 total_impressions |-> SumField(df, "impressions"),
                 avg_ctr |-> [num |-> SumField(df, "ctr"), den |-> Len(df)],
                 avg_position |-> [num |-> SumField(df, "position"), den |-> Len(df)],
                 unique_queries |-> NUnique(df, "query"),
                 unique_pages |-> NUnique(df, "page"),
                 top_queries |-> IF HasColumn(df, "query")
                                 THEN TopQueriesByClicks(df, TopSummaryQueries)
                                 ELSE <<>>]]

\* _prepare_data_summary applied to the caller's Dataset
prepare_data_summary ==
    /\ call' = "_prepare_data_summary"
    /\ arg' = [none |-> TRUE]
    /\ UNCHANGED <<data, previous_data, secret, client, api_key, response,
                 credentials, service, session_state>>
    /\ frame' = NoFrame
    /\ prompt' = NoPrompt
    /\ generator_calls' = 0
    /\ generator_outcome' = "none"
    /\ NoFetch
    /\ out' = Text(<<PrepareDataSummary(data)>>)
    /\ exc' = "none"

UserQueries == {"domanda"}

\* custom_analysis without the test of self.client
custom_analysis_NoClientCheck ==
    \E user_query \in UserQueries :
        /\ call' = "custom_analysis"
        /\ arg' = [user_query |-> user_query]
        /\ UNCHANGED <<data, previous_data, secret, client, api_key, response,
                     credentials, service, session_state>>
        /\ IF data = <<>>
           THEN Unavailable(NotAvailableText)
           ELSE /\ frame' = [kind |-> "summary"]
                /\ prompt' = [kind |-> "custom_analysis",
                              data_summary |-> PrepareDataSummary(data),
                              user_query |-> user_query]
                /\ generator_calls' = 1
                /\ NoFetch
                /\ exc' = "none"
                /\ \E outcome \in IF client THEN GeneratorOutcomes ELSE {"error"} :
                      /\ generator_outcome' = outcome
                      /\ \E o \in GetAIResponse(outcome) : out' = o

custom_analysis ==
    \E user_query \in UserQueries :
        /\ call' = "custom_analysis"
        /\ arg' = [user_query |-> user_query]
        /\ UNCHANGED <<data, previous_data, secret, client, api_key, response,
                     credentials, service, session_state>>
        /\ IF data = <<>> \/ ~client
           THEN Unavailable(NotAvailableText)
           ELSE Asks([kind |-> "summary"],
                     [kind |-> "custom_analysis",
                      data_summary |-> PrepareDataSummary(data),
                      user_query |-> user_query])

----------------------------------------------------------------------------
(* AIAnalyzer.__init__ / setup_openai and the ambient secrets *)

\* __init__: client = None, then setup_openai; openai.api_key is set by it
\* (and by the __init__ of app.py) if the secrets hold a key
Constructed ==
    /\ client = secret
    /\ api_key = secret

\* st.secrets.get("OPENAI_API_KEY"): client = openai if there is a key,
\* a warning and the client as it was otherwise
setup_openai ==
    /\ call' = "setup_openai"
    /\ arg' = [none |-> TRUE]
    /\ client' = (secret \/ client)
    /\ api_key' = (secret \/ api_key)
    /\ UNCHANGED <<data, previous_data, secret, response,
                 credentials, service, session_state>>
    /\ frame' = NoFrame
    /\ prompt' = NoPrompt
    /\ out' = NoReturn
    /\ exc' = "none"
    /\ generator_calls' = 0
    /\ NoFetch
    /\ generator_outcome' = "none"

\* the key is added to or removed from secrets.toml
secrets_change ==
    /\ call' = "secrets_change"
    /\ arg' = [none |-> TRUE]
    /\ secret' = ~secret
    /\ UNCHANGED <<data, previous_data, client, api_key, response,
                 credentials, service, session_state>>
    /\ frame' = NoFrame
    /\ prompt' = NoPrompt
    /\ out' = NoReturn
    /\ exc' = "none"
    /\ generator_calls' = 0
    /\ NoFetch
    /\ generator_outcome' = "none"

----------------------------------------------------------------------------
(* app.py: AIAnalyzer.analyze_data and AIAnalyzer._prepare_data_summary *)

KeyMissingText ==
    Text(<<[t |-> "suggestion",
            v |-> "OpenAI API key non configurata. Aggiungi OPENAI_API_KEY in secrets.toml"]>>)

\* the digest of app.py: period, totals, averages, unique queries and the
\* 5 queries with the most clicks (head() keeps 5)
AppPrepareDataSummary(df) ==
    IF df = <<>>
    THEN [t |-> "no_data", v |-> "Nessun dato disponibile"]
    ELSE [t |-> "digest",
          v |-> [date_range |-> DateRange(df),
                 total_clicks |-> SumField(df, "clicks"),
                 total_impressions |-> SumField(df, "impressions"),
                 avg_ctr |-> [num |-> SumField(df, "ctr"), den |-> Len(df)],
                 avg_position |-> [num |-> SumField(df, "position"), den |-> Len(df)],
                 unique_queries |-> NUnique(df, "query"),
                 top_queries |-> TopQueriesByClicks(df, TopSummaryQueries)]]

\* the key is looked up in st.secrets at every call, whatever openai.api_key
\* was set to by __init__; the data of app.py is the demo frame, complete in
\* every field
analyze_data ==
    \E query \in UserQueries :
        /\ Complete(data)
        /\ call' = "analyze_data"
        /\ arg' = [query |-> query]
        /\ UNCHANGED <<data, previous_data, secret, client, api_key, response,
                     credentials, service, session_state>>
        /\ IF ~secret
           THEN /\ frame' = NoFrame
                /\ prompt' = NoPrompt
                /\ out' = KeyMissingText
                /\ exc' = "none"
                /\ generator_calls' = 0
                /\ NoFetch
                /\ generator_outcome' = "none"
           ELSE Asks([kind |-> "summary"],
                     [kind |-> "analyze_data",
                      summary |-> AppPrepareDataSummary(data),
                      query |-> query])

\* app.py's _prepare_data_summary applied to the demo frame
app_prepare_data_summary ==
    /\ Complete(data)
    /\ call' = "app._prepare_data_summary"
    /\ arg' = [none |-> TRUE]
    /\ UNCHANGED <<data, previous_data, secret, client, api_key, response,
                 credentials, service, session_state>>
    /\ frame' = NoFrame
    /\ prompt' = NoPrompt
    /\ generator_calls' = 0
    /\ generator_outcome' = "none"
    /\ NoFetch
    /\ out' = Text(<<AppPrepareDataSummary(data)>>)
    /\ exc' = "none"

----------------------------------------------------------------------------
(* GSCDataManager.get_search_analytics *)

\* dict(zip(dimensions, row['keys'])): the value of a dimension, if the row
\* has a key at its place
KeyOf(row, dimensions, col) ==
    IF \E i \in 1..Min(Len(dimensions), Len(row.keys)) : dimensions[i] = col
    THEN row.keys[CHOOSE i \in 1..Min(Len(dimensions), Len(row.keys)) : dimensions[i] = col]
    ELSE None

\* one row of the response as a row of the DataFrame
RowData(row, dimensions) ==
    Rec(KeyOf(row, dimensions, "date"), KeyOf(row, dimensions, "query"),
        KeyOf(row, dimensions, "page"), row.clicks, row.impressions, row.ctr,
        row.position)

MetricNames == {"clicks", "impressions", "ctr", "position"}

\* row['clicks'], row['impressions'], row['ctr'], row['position'] all exist
HasMetrics(row) == MetricNames \subseteq DOMAIN row

\* response.get('rows', [])
ResponseRows(resp) == IF "rows" \in DOMAIN resp THEN resp.rows ELSE <<>>

HttpErrorNotice == "Errore nel recupero dei dati analytics"

\* the try block with response['rows'] in place of response.get('rows', [])
GetSearchAnalytics_RowsRequired(resp, dimensions) ==
    IF resp.kind = "HttpError"
    THEN [exc |-> "none", df |-> <<>>, st_error |-> HttpErrorNotice]
    ELSE IF resp.kind = "raises"
    THEN [exc |-> resp.error, df |-> <<>>, st_error |-> "none"]
    ELSE IF "rows" \notin DOMAIN resp
    THEN [exc |-> "KeyError", df |-> <<>>, st_error |-> "none"]
    ELSE IF resp.rows = <<>>
    THEN [exc |-> "none", df |-> <<>>, st_error |-> "none"]
    ELSE IF \E i \in 1..Len(resp.rows) : ~HasMetrics(resp.rows[i])
    THEN [exc |-> "KeyError", df |-> <<>>, st_error |-> "none"]
    ELSE [exc |-> "none",
          df |-> [i \in 1..Len(resp.rows) |-> RowData(resp.rows[i], dimensions)],
          st_error |-> "none"]

\* get_search_analytics, after the one execute(): an HttpError is shown with
\* st.error and gives the empty frame; any other exception of execute()
\* propagates, as does the KeyError of a row without one of its metrics; a
\* response without rows gives the empty frame
GetSearchAnalytics(resp, dimensions) ==
    IF resp.kind = "HttpError"
    THEN [exc |-> "none", df |-> <<>>, st_error |-> HttpErrorNotice]
    ELSE IF resp.kind = "raises"
    THEN [exc |-> resp.error, df |-> <<>>, st_error |-> "none"]
    ELSE LET rows == ResponseRows(resp)
         IN IF rows = <<>>
            THEN [exc |-> "none", df |-> <<>>, st_error |-> "none"]
            ELSE IF \E i \in 1..Len(rows) : ~HasMetrics(rows[i])
            THEN [exc |-> "KeyError", df |-> <<>>, st_error |-> "none"]
            ELSE [exc |-> "none",
                  df |-> [i \in 1..Len(rows) |-> RowData(rows[i], dimensions)],
                  st_error |-> "none"]

get_search_analytics(DimensionInputs) ==
    \E dimensions \in DimensionInputs :
        /\ response.kind # "none"
        /\ call' = "get_search_analytics"
        /\ arg' = [dimensions |-> dimensions]
        /\ UNCHANGED <<data, previous_data, secret, client, api_key, response,
                     credentials, service, session_state>>
        /\ prompt' = NoPrompt
        /\ generator_calls' = 0
        /\ generator_outcome' = "none"
        /\ source_calls' = 1
        /\ LET fetched == GetSearchAnalytics(response, dimensions)
           IN /\ frame' = [kind |-> "fetched", rows |-> fetched.df]
              /\ out' = IF fetched.exc = "none"
                        THEN [kind |-> "frame", rows |-> fetched.df]
                        ELSE NoReturn
              /\ exc' = fetched.exc
              /\ st_error' = fetched.st_error

get_branded_vs_nonbranded(KeywordInputs) ==
    \E brand_keywords \in KeywordInputs :
        /\ response.kind # "none"
        /\ call' = "get_branded_vs_nonbranded"
        /\ arg' = [brand_keywords |-> brand_keywords]
        /\ UNCHANGED <<data, previous_data, secret, client, api_key, response,
                     credentials, service, session_state>>
        /\ prompt' = NoPrompt
        /\ generator_calls' = 0
        /\ generator_outcome' = "none"
        /\ source_calls' = 1
        /\ LET fetched == GetSearchAnalytics(response, <<"query">>)
               df == fetched.df
           IN /\ st_error' = fetched.st_error
              /\ frame' = [kind |-> "fetched", rows |-> df]
              /\ IF fetched.exc # "none"
                 THEN /\ out' = NoReturn
                      /\ exc' = fetched.exc
                 ELSE IF df = <<>>
                 THEN /\ out' = [kind |-> "dict", branded |-> 0, non_branded |-> 0]
                      /\ exc' = "none"
                 ELSE IF ~HasColumn(df, "query")
                 THEN /\ out' = NoReturn
                      /\ exc' = "KeyError"
                 ELSE LET is_branded ==
                              [i \in 1..Len(df) |-> IsBrandedGSC(df[i].query, brand_keywords)]
                          Clicks(b) ==
                              SumSeq([i \in 1..Len(df) |->
                                  IF is_branded[i] = b THEN df[i].clicks ELSE 0])
                      IN /\ out' = [kind |-> "dict", branded |-> Clicks(TRUE),
                                    non_branded |-> Clicks(FALSE)]
                         /\ exc' = "none"

----------------------------------------------------------------------------
(* GSCDataManager.get_performance_summary *)

\* round(num / den, ndigits) as the integer nearest to num / den, the even
\* one of two equally near (num >= 0, den > 0)
RoundHalfEven(num, den) ==
    LET q == num \div den
        r == num % den
    IN IF 2 * r < den THEN q
       ELSE IF 2 * r > den THEN q + 1
       ELSE IF q % 2 = 0 THEN q ELSE q + 1

\* round((total_clicks / total_impressions * 100) if total_impressions > 0
\* else 0, 2), in hundredths of a percent
AvgCtr(total_clicks, total_impressions) ==
    [nan |-> FALSE,
     hundredths |-> IF total_impressions > 0
                    THEN RoundHalfEven(total_clicks * 10000, total_impressions)
                    ELSE 0]

\* the dict returned for an empty frame
EmptyPerformanceSummary ==
    [kind |-> "dict", total_clicks |-> 0, total_impressions |-> 0,
     avg_ctr |-> [nan |-> FALSE, hundredths |-> 0], avg_position |-> 0,
     total_queries |-> 0]

\* two fetches, by date and then by query; the second answer of the Metrics
\* Source is one of SecondResponses
get_performance_summary(SecondResponses) ==
    /\ response.kind # "none"
    /\ call' = "get_performance_summary"
    /\ arg' = [none |-> TRUE]
    /\ UNCHANGED <<data, previous_data, secret, client, api_key, response,
                 credentials, service, session_state>>
    /\ prompt' = NoPrompt
    /\ generator_calls' = 0
    /\ generator_outcome' = "none"
    /\ LET first == GetSearchAnalytics(response, <<"date">>)
           df == first.df
       IN /\ frame' = [kind |-> "fetched", rows |-> df]
          /\ IF first.exc # "none"
             THEN /\ out' = NoReturn
                  /\ exc' = first.exc
                  /\ source_calls' = 1
                  /\ st_error' = first.st_error
             ELSE IF df = <<>>
             THEN /\ out' = EmptyPerformanceSummary
                  /\ exc' = "none"
                  /\ source_calls' = 1
                  /\ st_error' = first.st_error
             ELSE \E resp \in SecondResponses :
                    LET second == GetSearchAnalytics(resp, <<"query">>)
                        total_clicks == SumField(df, "clicks")
                        total_impressions == SumField(df, "impressions")
                    IN /\ source_calls' = 2
                       /\ st_error' = second.st_error
                       /\ exc' = second.exc
                       /\ out' = IF second.exc # "none" THEN NoReturn
                                 ELSE [kind |-> "dict",
                                       total_clicks |-> total_clicks,
                                       total_impressions |-> total_impressions,
                                       avg_ctr |-> AvgCtr(total_clicks, total_impressions),
                                       avg_position |->
                                           RoundHalfEven(SumField(df, "position"), Len(df)),
                                       total_queries |-> Len(second.df)]

----------------------------------------------------------------------------
(* GSCAuthenticator *)

\* the access tokens the token endpoint hands out
Tokens == 1..MaxTokens

Credentials(token, expired) ==
    [kind |-> "credentials", token |-> token, expired |-> expired]

\* the dict save_credentials stores in the session
CredsData(creds) == [kind |-> "creds_data", token |-> creds.token]

\* build('searchconsole', 'v1', credentials=creds)
Build(creds) == [kind |-> "service", token |-> creds.token]

Bool(b) == [kind |-> "bool", v |-> b]

\* a method of the authenticator: it touches neither the Datasets nor the
\* analyzer, asks nothing of the generator and of the Metrics Source
AuthCall(name) ==
    /\ call' = name
    /\ arg' = [none |-> TRUE]
    /\ UNCHANGED <<data, previous_data, secret, client, api_key, response>>
    /\ frame' = NoFrame
    /\ prompt' = NoPrompt
    /\ exc' = "none"
    /\ generator_calls' = 0
    /\ generator_outcome' = "none"
    /\ source_calls' = 0

\* setup_oauth_flow gives no flow, fetch_token raises, or the token endpoint
\* answers with a token: the credentials are replaced and saved, the service
\* is left as it is
handle_oauth_callback ==
    /\ AuthCall("handle_oauth_callback")
    /\ UNCHANGED service
    /\ \/ /\ st_error' = "Errore nella configurazione OAuth"
          /\ out' = Bool(FALSE)
          /\ UNCHANGED <<credentials, session_state>>
       \/ /\ st_error' = "Errore nell'autenticazione"
          /\ out' = Bool(FALSE)
          /\ UNCHANGED <<credentials, session_state>>
       \/ \E token \in Tokens :
             /\ credentials' = Credentials(token, FALSE)
             /\ session_state' = CredsData(Credentials(token, FALSE))
             /\ st_error' = "none"
             /\ out' = Bool(TRUE)

\* the credentials are rebuilt from the session; expired ones are refreshed
\* (a new token, saved) or, if the refresh raises, kept expired
load_credentials ==
    /\ AuthCall("load_credentials")
    /\ UNCHANGED service
    /\ IF session_state = NoSession
       THEN /\ out' = Bool(FALSE)
            /\ st_error' = "none"
            /\ UNCHANGED <<credentials, session_state>>
       ELSE \/ /\ credentials' = Credentials(session_state.token, FALSE)
               /\ UNCHANGED session_state
               /\ st_error' = "none"
               /\ out' = Bool(TRUE)
            \/ \E token \in Tokens \ {session_state.token} :
                  /\ credentials' = Credentials(token, FALSE)
                  /\ session_state' = CredsData(Credentials(token, FALSE))
                  /\ st_error' = "none"
                  /\ out' = Bool(TRUE)
            \/ /\ credentials' = Credentials(session_state.token, TRUE)
               /\ UNCHANGED session_state
               /\ st_error' = "Errore nel refresh del token"
               /\ out' = Bool(FALSE)

\* if self.credentials and not self.service: self.service = build(...)
get_service ==
    /\ AuthCall("get_service")
    /\ UNCHANGED <<credentials, session_state>>
    /\ st_error' = "none"
    /\ service' = IF credentials # NoCredentials /\ service = NoService
                  THEN Build(credentials)
                  ELSE service
    /\ out' = service'

is_authenticated ==
    /\ AuthCall("is_authenticated")
    /\ UNCHANGED <<credentials, service, session_state>>
    /\ st_error' = "none"
    /\ out' = Bool(credentials # NoCredentials /\ ~credentials.expired)

logout ==
    /\ AuthCall("logout")
    /\ credentials' = NoCredentials
    /\ service' = NoService
    /\ session_state' = NoSession
    /\ st_error' = "none"
    /\ out' = NoReturn

\* the expiry of the credentials passes
credentials_expire ==
    /\ credentials # NoCredentials
    /\ ~credentials.expired
    /\ AuthCall("credentials_expire")
    /\ credentials' = Credentials(credentials.token, TRUE)
    /\ UNCHANGED <<service, session_state>>
    /\ st_error' = "none"
    /\ out' = NoReturn

----------------------------------------------------------------------------
(* Datasets the specifications start from *)

RECURSIVE SeqsUpTo(_, _)
SeqsUpTo(S, n) ==
    IF n = 0 THEN {<<>>}
    ELSE LET shorter == SeqsUpTo(S, n - 1)
         IN shorter \cup {Append(s, x) : s \in {t \in shorter : Len(t) = n - 1}, x \in S}

\* the i-th of a run of rows with distinct keys and varied metrics, each a
\* keyword opportunity of high potential
Filler(i) ==
    Rec(<<i>>, <<122, i>>, <<47, i>>, (i * 3) % 7, 100 + 50 * (i % 4), 2,
        40 + 10 * ((i * 7) % 5))

FillerRows(k) == [i \in 1..k |-> Filler(i)]

FillCounts == {0} \cup {k \in 1..MaxFill : k >= MaxFill - 3}

WithFillers(S) == {r \o FillerRows(k) : r \in S, k \in FillCounts}

\* nothing has been invoked yet
Fresh ==
    /\ call = "none"
    /\ arg = [none |-> TRUE]
    /\ frame = NoFrame
    /\ prompt = NoPrompt
    /\ out = NoReturn
    /\ exc = "none"
    /\ generator_calls = 0
    /\ generator_outcome = "none"
    /\ source_calls = 0
    /\ st_error = "none"
    /\ credentials = NoCredentials
    /\ service = NoService

InitWith(datasets) ==
    /\ data \in datasets
    /\ previous_data = <<>>
    /\ secret = TRUE
    /\ client = TRUE
    /\ api_key = TRUE
    /\ response = NoResponse
    /\ session_state = NoSession
    /\ Fresh

\* rows of the queries "a" and "b" and one row without a query:
\* <<query, impressions, position, ctr>>
KwRecords ==
    {Rec(<<1>>, t[1], <<47>>, 1, t[2], t[4], t[3]) :
        t \in {<<(<<97>>), 50, 40, 2>>, <<(<<97>>), 50, 20, 2>>,
               <<(<<97>>), 100, 40, 8>>, <<(<<97>>), 100, 100, 2>>,
               <<(<<97>>), 100, 110, 2>>, <<(<<97>>), 100, 40, 2>>,
               <<(<<98>>), 100, 40, 2>>, <<(<<98>>), 50, 40, 2>>,
               <<None, 100, 40, 2>>}}

DatasetsKw == WithFillers(SeqsUpTo(KwRecords, MaxRich))

InitKw == InitWith(DatasetsKw)

NextKw == analyze_keyword_opportunities

SpecKw == InitKw /\ [][NextKw]_vars

\* <<date, query, page, clicks>>: rows of two dates, two queries and two
\* pages, some of them without a date, a query or a page
AggRecords ==
    {Rec(t[1], t[2], t[3], t[4], 10, 5, 10) :
        t \in {<<(<<1>>), (<<97>>), (<<47>>), 1>>,
               <<(<<1>>), (<<97>>), (<<47>>), 2>>,
               <<(<<2>>), (<<98>>), (<<47, 120>>), 2>>,
               <<(<<2>>), (<<97>>), (<<47, 120>>), 3>>,
               <<None, (<<97>>), (<<47>>), 1>>,
               <<(<<1>>), None, (<<47>>), 2>>,
               <<(<<1>>), (<<98>>), None, 1>>,
               <<None, None, None, 1>>}}

DatasetsAgg == WithFillers(SeqsUpTo(AggRecords, MaxRich))

InitAgg == InitWith(DatasetsAgg)

NextAgg ==
    \/ analyze_traffic_trends
    \/ analyze_keyword_opportunities
    \/ analyze_content_performance
    \/ main_tabs

SpecAgg == InitAgg /\ [][NextAgg]_vars

\* one row a day, in the order of the days, with the clicks of the series
DailyRows(series) ==
    [i \in 1..Len(series) |-> Rec(<<i>>, <<97>>, <<47>>, series[i], 100, 5, 45)]

SeriesInputs ==
    SeqsUpTo({10, 11, 12}, MaxDays)
    \cup {<<10, 12, 14, 16, 18>>, <<18, 16, 14, 12, 10>>, <<10, 11, 10, 11, 10>>}

DatasetsTrend == {DailyRows(series) : series \in SeriesInputs}

InitTrend == InitWith(DatasetsTrend)

NextTrend == analyze_traffic_trends

SpecTrend == InitTrend /\ [][NextTrend]_vars

\* <<query, clicks>> for the queries "", "a", "A", "b", "ab" and no query
BrandRecords ==
    {Rec(<<1>>, t[1], <<47>>, t[2], 100, 5, 45) :
        t \in {<<None, 3>>, <<(<<>>), 3>>, <<(<<97>>), 3>>, <<(<<97>>), 5>>,
               <<(<<65>>), 5>>, <<(<<98>>), 3>>, <<(<<97, 98>>), 5>>}}

\* "buy nike shoes" with 5 clicks and "running shoes" with 3
NikeQueries ==
    <<Rec(<<1>>, <<98, 117, 121, 32, 110, 105, 107, 101, 32, 115, 104, 111, 101, 115>>, <<47>>, 5, 100, 5, 45),
      Rec(<<1>>, <<114, 117, 110, 110, 105, 110, 103, 32, 115, 104, 111, 101, 115>>, <<47>>, 3, 100, 5, 45)>>

DatasetsBrand == SeqsUpTo(BrandRecords, MaxRich) \cup {NikeQueries}

\* the keywords "a", "A", "." and "ab"; the list ["nike"]
BrandKeywords == {<<97>>, <<65>>, <<Dot>>, <<97, 98>>}
BrandKeywordLists == SeqsUpTo(BrandKeywords, MaxKeywords) \cup {<<<<110, 105, 107, 101>>>>}

\* the response whose rows, fetched by query, give the Dataset
RawRows(df) ==
    [kind |-> "response",
     rows |-> [i \in 1..Len(df) |->
                 [keys |-> IF df[i].query = None THEN <<>> ELSE <<df[i].query>>,
                  clicks |-> df[i].clicks, impressions |-> df[i].impressions,
                  ctr |-> df[i].ctr, position |-> df[i].position]]]

InitBrand ==
    /\ data \in DatasetsBrand
    /\ previous_data = <<>>
    /\ secret = TRUE
    /\ client = TRUE
    /\ api_key = TRUE
    /\ response = RawRows(data)
    /\ session_state = NoSession
    /\ Fresh

NextBrand ==
    \/ analyze_branded_traffic(BrandKeywordLists)
    \/ get_branded_vs_nonbranded(BrandKeywordLists)

SpecBrand == InitBrand /\ [][NextBrand]_vars

\* <<clicks, impressions, ctr, position>>: rows with no clicks, with no
\* impressions and with a ctr of 0 among them
CmpRecords ==
    {Rec(<<1>>, <<97>>, <<47>>, t[1], t[2], t[3], t[4]) :
        t \in {<<0, 0, 0, 10>>, <<0, 10, 0, 45>>, <<2, 10, 20, 10>>, <<1, 10, 10, 30>>}}

InitCmp ==
    /\ data \in SeqsUpTo(CmpRecords, MaxRich)
    /\ previous_data \in SeqsUpTo(CmpRecords, MaxRich)
    /\ secret = TRUE
    /\ client = TRUE
    /\ api_key = TRUE
    /\ response = NoResponse
    /\ session_state = NoSession
    /\ Fresh

NextCmp == compare_periods

SpecCmp == InitCmp /\ [][NextCmp]_vars

\* a row of each of two days, queries and pages, and a row without query
MainRecords ==
    {Rec(<<1>>, <<97>>, <<47>>, 2, 100, 5, 45),
     Rec(<<2>>, <<98>>, <<47, 120>>, 0, 50, 0, 20),
     Rec(<<1>>, None, <<47>>, 1, 10, 10, 110)}

MainKeywordLists == {<<>>, <<(<<97>>)>>}

\* an AIAnalyzer constructed with or without a key in the secrets
Init ==
    /\ data \in SeqsUpTo(MainRecords, MaxRich)
    /\ previous_data \in SeqsUpTo(MainRecords, MaxPrevious)
    /\ secret \in BOOLEAN
    /\ Constructed
    /\ response = NoResponse
    /\ session_state = NoSession
    /\ Fresh

Next ==
    \/ analyze_traffic_trends
    \/ analyze_keyword_opportunities
    \/ analyze_content_performance
    \/ compare_periods
    \/ analyze_branded_traffic(MainKeywordLists)
    \/ custom_analysis
    \/ analyze_data
    \/ setup_openai
    \/ secrets_change

Spec == Init /\ [][Next]_vars

\* a raw row of the Metrics Source: its keys and its metrics block
RawRow(keys, c, i, r, pos) ==
    [keys |-> keys, clicks |-> c, impressions |-> i, ctr |-> r, position |-> pos]

\* the row without one field of its metrics block
Without(row, f) == [k \in DOMAIN row \ {f} |-> row[k]]

\* rows with one key, a row with no impressions and one with no clicks
WellFormedRows ==
    {RawRow(<<(<<97>>)>>, 2, 10, 20, 10), RawRow(<<(<<98>>)>>, 0, 0, 0, 45),
     RawRow(<<(<<99>>)>>, 0, 7, 0, 20)}

\* the one row a fetch by query answers with
QueryRows == {RawRow(<<(<<97>>)>>, 2, 10, 20, 10)}

\* rows whose metrics block lacks clicks or ctr
RowsMissingMetric ==
    {Without(RawRow(<<(<<97>>)>>, 2, 10, 20, 10), "clicks"),
     Without(RawRow(<<(<<98>>)>>, 1, 10, 10, 30), "ctr")}

\* rows with no key and with two keys
RowsOtherKeys ==
    {RawRow(<<>>, 1, 10, 10, 30), RawRow(<<(<<97>>), (<<47>>)>>, 1, 10, 10, 30)}

\* what execute() can do: raise HttpError, raise another exception, return
\* a response without 'rows' or with up to MaxRows of the given rows
Responses(rows) ==
    {[kind |-> "HttpError"], [kind |-> "raises", error |-> "TransportError"],
     [kind |-> "response"]}
    \cup {[kind |-> "response", rows |-> rs] : rs \in SeqsUpTo(rows, MaxRows)}

\* <<date, query, page>>: rows with and without a date, a query, a page
SummaryRecords ==
    {Rec(t[1], t[2], t[3], 2, 10, 5, 10) :
        t \in {<<(<<1>>), (<<97>>), (<<47>>)>>, <<(<<2>>), (<<98>>), (<<47>>)>>,
               <<None, (<<97>>), (<<47>>)>>, <<None, None, None>>}}

InitSummary ==
    /\ data \in SeqsUpTo(SummaryRecords, MaxRich)
    /\ previous_data = <<>>
    /\ secret = TRUE
    /\ client = TRUE
    /\ api_key = TRUE
    /\ response \in Responses(WellFormedRows)
    /\ session_state = NoSession
    /\ Fresh

NextSummary ==
    \/ prepare_data_summary
    \/ app_prepare_data_summary
    \/ get_performance_summary(Responses(QueryRows))

SpecSummary == InitSummary /\ [][NextSummary]_vars

\* every operation on Datasets and fetches that may be empty
InitEmpty ==
    /\ data \in SeqsUpTo(MainRecords, MaxRich)
    /\ previous_data \in SeqsUpTo(MainRecords, MaxPrevious)
    /\ secret = TRUE
    /\ client = TRUE
    /\ api_key = TRUE
    /\ response \in Responses(QueryRows)
    /\ session_state = NoSession
    /\ Fresh

NextEmpty ==
    \/ analyze_traffic_trends
    \/ analyze_keyword_opportunities
    \/ analyze_content_performance
    \/ compare_periods
    \/ analyze_branded_traffic(MainKeywordLists)
    \/ custom_analysis
    \/ calculate_trend
    \/ prepare_data_summary
    \/ main_tabs
    \/ get_branded_vs_nonbranded(MainKeywordLists)
    \/ get_performance_summary(Responses(QueryRows))

SpecEmpty == InitEmpty /\ [][NextEmpty]_vars

\* <<query, clicks>>: rows of the queries "a" and "b" with and without clicks
RatioRecords ==
    {Rec(<<1>>, t[1], <<47>>, t[2], 10, 0, 45) :
        t \in {<<(<<97>>), 0>>, <<(<<98>>), 0>>, <<(<<97>>), 5>>, <<(<<98>>), 3>>}}

InitRatio ==
    /\ data \in SeqsUpTo(RatioRecords, MaxRich)
    /\ previous_data = <<>>
    /\ secret = TRUE
    /\ client = TRUE
    /\ api_key = TRUE
    /\ response \in Responses(WellFormedRows)
    /\ session_state = NoSession
    /\ Fresh

NextRatio ==
    \/ analyze_branded_traffic(MainKeywordLists)
    \/ get_performance_summary(Responses(QueryRows))

SpecRatio == InitRatio /\ [][NextRatio]_vars

\* the dimensions a fetch is asked for
DimensionInputs == {<<"query">>, <<"date", "query">>, <<"query", "page">>}

FetchRows == WellFormedRows \cup RowsMissingMetric \cup RowsOtherKeys

InitFetch ==
    /\ data \in SeqsUpTo(MainRecords, MaxRich)
    /\ previous_data = <<>>
    /\ secret = TRUE
    /\ client = TRUE
    /\ api_key = TRUE
    /\ response \in Responses(FetchRows)
    /\ session_state = NoSession
    /\ Fresh

NextFetch ==
    \/ get_search_analytics(DimensionInputs)
    \/ get_branded_vs_nonbranded(MainKeywordLists)
    \/ custom_analysis
    \/ analyze_traffic_trends

SpecFetch == InitFetch /\ [][NextFetch]_vars

\* a new GSCAuthenticator in a session with or without saved credentials
InitAuth ==
    /\ data = <<>>
    /\ previous_data = <<>>
    /\ secret = TRUE
    /\ client = TRUE
    /\ api_key = TRUE
    /\ response = NoResponse
    /\ session_state \in {NoSession} \cup {CredsData(Credentials(t, FALSE)) : t \in Tokens}
    /\ Fresh

NextAuth ==
    \/ handle_oauth_callback
    \/ load_credentials
    \/ get_service
    \/ is_authenticated
    \/ logout
    \/ credentials_expire

SpecAuth == InitAuth /\ [][NextAuth]_vars

----------------------------------------------------------------------------
(* What the claims are checked against: the aggregates recomputed from the  *)
(* rows of the Dataset                                                      *)

RowsOf(df, col, k) == {i \in 1..Len(df) : df[i][col] = k}

RECURSIVE SumOver(_, _, _)
SumOver(df, I, f) ==
    IF I = {} THEN 0
    ELSE LET i == CHOOSE x \in I : TRUE
         IN df[i][f] + SumOver(df, I \ {i}, f)

Total(df, f) == SumOver(df, 1..Len(df), f)

KeysOf(df, col) == {df[i][col] : i \in 1..Len(df)} \ {None}

\* the row is the aggregate of the rows of data whose col is its key
IsGroupOf(row, df, col) ==
    LET I == RowsOf(df, col, row.key)
    IN /\ row.key \in KeysOf(df, col)
       /\ row.clicks = SumOver(df, I, "clicks")
       /\ row.impressions = SumOver(df, I, "impressions")
       /\ row.ctr_sum = SumOver(df, I, "ctr")
       /\ row.position_sum = SumOver(df, I, "position")
       /\ row.n = Cardinality(I)

DistinctKeys(rows) ==
    \A i, j \in 1..Len(rows) : i # j => rows[i].key # rows[j].key

KeysIn(rows) == {rows[i].key : i \in 1..Len(rows)}

GroupImpressions(k) == SumOver(data, RowsOf(data, "query", k), "impressions")
GroupPosition(k) == SumOver(data, RowsOf(data, "query", k), "position")
GroupCtr(k) == SumOver(data, RowsOf(data, "query", k), "ctr")
GroupSize(k) == Cardinality(RowsOf(data, "query", k))

AskedKeywords ==
    call = "analyze_keyword_opportunities" /\ prompt.kind = "keyword_opportunities"

\* the query groups with impressions >= min, mean position > 3.0, mean ctr < 0.05
OpportunityKeys ==
    {k \in KeysOf(data, "query") :
        /\ GroupImpressions(k) >= arg.min_impressions
        /\ GroupPosition(k) > 30 * GroupSize(k)
        /\ GroupCtr(k) < 5 * GroupSize(k)}

\* C8: find_opportunities returns exactly the query groups with summed
\* impressions >= min_impressions, mean position > 3.0 and mean ctr < 0.05,
\* by descending impressions, cut to the 10 groups with most impressions.
C8_Opportunities ==
    AskedKeywords =>
        LET opp == prompt.opportunities
        IN /\ \A i \in 1..Len(opp) :
                 opp[i].key \in OpportunityKeys /\ IsGroupOf(opp[i], data, "query")
           /\ DistinctKeys(opp)
           /\ Len(opp) = Min(10, Cardinality(OpportunityKeys))
           /\ \A i, j \in 1..Len(opp) : i < j => opp[i].impressions >= opp[j].impressions
           /\ \A k \in OpportunityKeys \ KeysIn(opp) :
                 \A i \in 1..Len(opp) : GroupImpressions(k) <= opp[i].impressions

\* more than 10 groups qualify and are cut to 10, while a group at mean
\* position exactly 3.0, one at mean ctr exactly 0.05 or one at exactly
\* min_impressions is decided
C8_Witness ==
    /\ AskedKeywords
    /\ Cardinality(OpportunityKeys) > 10
    /\ Len(prompt.opportunities) = 10
    /\ \E k \in KeysOf(data, "query") \ OpportunityKeys :
          GroupPosition(k) = 30 * GroupSize(k) \/ GroupCtr(k) = 5 * GroupSize(k)
    /\ \E k \in OpportunityKeys : GroupImpressions(k) = arg.min_impressions

\* the query groups with 3.0 < mean position <= 10.0 and impressions >= min
HighPotentialKeys ==
    {k \in KeysOf(data, "query") :
        /\ GroupPosition(k) > 30 * GroupSize(k)
        /\ GroupPosition(k) <= 100 * GroupSize(k)
        /\ GroupImpressions(k) >= arg.min_impressions}

\* row a is not after row b: more impressions, or as many and a mean
\* position that is not higher
NotAfter(a, b) ==
    \/ a.impressions > b.impressions
    \/ a.impressions = b.impressions /\ a.position_sum * b.n <= b.position_sum * a.n

\* C9: find_high_potential returns exactly the query groups with
\* 3.0 < mean position <= 10.0 and summed impressions >= min_impressions, by
\* descending impressions, then ascending position, cut to the first 10.
C9_HighPotential ==
    AskedKeywords =>
        LET hp == prompt.high_potential
        IN /\ \A i \in 1..Len(hp) :
                 hp[i].key \in HighPotentialKeys /\ IsGroupOf(hp[i], data, "query")
           /\ DistinctKeys(hp)
           /\ Len(hp) = Min(10, Cardinality(HighPotentialKeys))
           /\ \A i, j \in 1..Len(hp) : i < j => NotAfter(hp[i], hp[j])
           /\ \A k \in HighPotentialKeys \ KeysIn(hp) :
                 \A i \in 1..Len(hp) :
                    NotAfter(hp[i], [impressions |-> GroupImpressions(k),
                                     position_sum |-> GroupPosition(k),
                                     n |-> GroupSize(k)])

\* more than 10 groups qualify, two kept groups tie on impressions and are
\* ordered by position, and a group at mean position exactly 10.0 is kept
\* or one at exactly 3.0 is left out
C9_Witness ==
    /\ AskedKeywords
    /\ Cardinality(HighPotentialKeys) > 10
    /\ Len(prompt.high_potential) = 10
    /\ \E i \in 1..9 :
          /\ prompt.high_potential[i].impressions = prompt.high_potential[i + 1].impressions
          /\ PositionLess(prompt.high_potential[i], prompt.high_potential[i + 1])
    /\ \/ \E k \in HighPotentialKeys : GroupPosition(k) = 100 * GroupSize(k)
       \/ \E k \in KeysOf(data, "query") \ HighPotentialKeys :
             GroupPosition(k) = 30 * GroupSize(k)

----------------------------------------------------------------------------
(* C1 *)

Grouped ==
    /\ call \in {"analyze_traffic_trends", "analyze_keyword_opportunities",
                 "analyze_content_performance", "main"}
    /\ frame.kind # "none"

\* C1: for every Dataset and grouping field in {date, query, page}, the
\* clicks of the rows produced by grouping sum to the clicks of all Records
\* of the Dataset, also when some Records have no value for the field.
C1_GroupingKeepsTotals ==
    Grouped =>
        /\ SumField(frame.rows, "clicks") = Total(data, "clicks")
        /\ frame.kind = "main" =>
              SumField(frame.daily_data, "clicks") = Total(data, "clicks")

----------------------------------------------------------------------------
(* C7 *)

AskedContent ==
    call = "analyze_content_performance" /\ prompt.kind = "content_performance"

ShowedTopQueries == call = "main" /\ frame.kind = "main"

\* top holds the n rows of rows with the most clicks, in descending order
IsTopByClicks(top, rows, n) ==
    /\ Len(top) = Max(0, Min(n, Len(rows)))
    /\ \A i \in 1..Len(top) : \E j \in 1..Len(rows) : rows[j] = top[i]
    /\ DistinctKeys(top)
    /\ \A i, j \in 1..Len(top) : i < j => top[i].clicks >= top[j].clicks
    /\ \A j \in 1..Len(rows) :
          rows[j].key \notin KeysIn(top) =>
              \A i \in 1..Len(top) : rows[j].clicks <= top[i].clicks

NInputs == -1..(MaxFill + 2)

----------------------------------------------------------------------------
(* C10 *)

AskedTrends == call = "analyze_traffic_trends" /\ prompt.kind = "traffic_trends"

\* the clicks per day, by ascending day
DailyClicks ==
    LET days == SortedKeys(KeysOf(data, "date"))
    IN [i \in 1..Len(days) |-> SumOver(data, RowsOf(data, "date", days[i]), "clicks")]

\* Pearson's r of (0..n-1, y) from the deviations from the means, each
\* deviation scaled by n: r = Sxy / sqrt(Sxx * Syy)
Sxy(y) ==
    LET n == Len(y)
    IN SumSeq([i \in 1..n |-> (n * (i - 1) - SumSeq([j \in 1..n |-> j - 1])) * (n * y[i] - SumSeq(y))])
Sxx(y) ==
    LET n == Len(y)
        d == [i \in 1..n |-> n * (i - 1) - SumSeq([j \in 1..n |-> j - 1])]
    IN SumSeq([i \in 1..n |-> d[i] * d[i]])
Syy(y) ==
    LET n == Len(y)
        d == [i \in 1..n |-> n * y[i] - SumSeq(y)]
    IN SumSeq([i \in 1..n |-> d[i] * d[i]])

Defined(y) == Sxx(y) > 0 /\ Syy(y) > 0
\* r > 0.3 and r < -0.3, as 10 * Sxy > 3 * sqrt(Sxx * Syy) squared
Above03(y) == Defined(y) /\ Sxy(y) > 0 /\ 100 * Sxy(y) * Sxy(y) > 9 * Sxx(y) * Syy(y)
Below03(y) == Defined(y) /\ Sxy(y) < 0 /\ 100 * Sxy(y) * Sxy(y) > 9 * Sxx(y) * Syy(y)

\* C10: with fewer than 2 points the trend is the insufficient-data marker;
\* otherwise it is growing exactly when Pearson's r of index and values is
\* > 0.3, declining exactly when r < -0.3, stable otherwise (also when r is
\* undefined); [10,12,14,16,18] grows, [18,16,14,12,10] declines and
\* [10,11,10,11,10] is stable.
C10_TrendDirection ==
    AskedTrends =>
        LET y == DailyClicks
            trend == prompt.stats.clicks_trend
        IN /\ Len(y) < 2 => trend = "Dati insufficienti"
           /\ Len(y) >= 2 =>
                 /\ trend = "Crescente" <=> Above03(y)
                 /\ trend = "Decrescente" <=> Below03(y)
                 /\ trend = "Stabile" <=> ~Above03(y) /\ ~Below03(y)
           /\ y = <<10, 12, 14, 16, 18>> => trend = "Crescente"
           /\ y = <<18, 16, 14, 12, 10>> => trend = "Decrescente"
           /\ y = <<10, 11, 10, 11, 10>> => trend = "Stabile"

\* the series [10,11,10,11,10], whose correlation is 0, was classified
C10_Witness ==
    /\ AskedTrends
    /\ DailyClicks = <<10, 11, 10, 11, 10>>
    /\ prompt.stats.clicks_trend = "Stabile"

----------------------------------------------------------------------------
(* C2 and C3 *)

AskedBranded == call = "analyze_branded_traffic" /\ prompt.kind = "branded_traffic"

SplitFetched == call = "get_branded_vs_nonbranded" /\ exc = "none" /\ frame.rows # <<>>

\* C2: with an empty brand_keywords list every Record is non_branded and
\* none is branded: branded clicks are 0, non_branded clicks the total.
C2_NoKeywordsNoBranded ==
    /\ AskedBranded /\ arg.brand_keywords = <<>> =>
          /\ \A i \in 1..Len(data) : ~data[i].is_branded
          /\ prompt.branded_stats.clicks = 0
          /\ prompt.nonbranded_stats.clicks = Total(data, "clicks")
    /\ SplitFetched /\ arg.brand_keywords = <<>> =>
          /\ out.branded = 0
          /\ out.non_branded = Total(frame.rows, "clicks")

\* the query contains the keyword as a literal substring, letter case aside
ContainsLiteral(query, keyword) ==
    /\ query # None
    /\ \E start \in 1..(Len(query) + 1) :
          /\ start + Len(keyword) - 1 <= Len(query)
          /\ \A j \in 1..Len(keyword) :
                LowerChar(query[start + j - 1]) = LowerChar(keyword[j])

HasBrandKeyword(query, keywords) ==
    \E i \in 1..Len(keywords) : ContainsLiteral(query, keywords[i])

BrandedClicks(df, keywords) ==
    SumOver(df, {i \in 1..Len(df) : HasBrandKeyword(df[i].query, keywords)}, "clicks")

\* C3: with a non-empty brand_keywords list a Record is branded iff its
\* query contains a keyword as a literal substring, case-insensitively (no
\* query: non_branded); the two segments partition the Dataset, so their
\* clicks add up to the total and branded_percentage is
\* branded clicks / total clicks * 100.
C3_BrandedIffLiteralSubstring ==
    /\ AskedBranded /\ arg.brand_keywords # <<>> =>
          /\ \A i \in 1..Len(data) :
                data[i].is_branded <=> HasBrandKeyword(data[i].query, arg.brand_keywords)
          /\ prompt.branded_stats.clicks = BrandedClicks(data, arg.brand_keywords)
          /\ prompt.branded_stats.clicks + prompt.nonbranded_stats.clicks
                = Total(data, "clicks")
          /\ Total(data, "clicks") > 0 =>
                prompt.branded_percentage.num * Total(data, "clicks")
                    = prompt.branded_stats.clicks * 100 * prompt.branded_percentage.den
    /\ SplitFetched /\ arg.brand_keywords # <<>> =>
          /\ out.branded = BrandedClicks(frame.rows, arg.brand_keywords)
          /\ out.branded + out.non_branded = Total(frame.rows, "clicks")

----------------------------------------------------------------------------
(* C4 and C5 *)

Analyses ==
    {"analyze_traffic_trends", "analyze_keyword_opportunities",
     "analyze_content_performance", "compare_periods", "analyze_branded_traffic",
     "custom_analysis"}

\* the last call was an analysis made with no Narrative Generator configured
CalledUnconfigured ==
    \/ call \in Analyses /\ ~client
    \/ call = "analyze_data" /\ ~secret

HasPart(text, kind) ==
    text.kind = "text" /\ \E i \in 1..Len(text.parts) : text.parts[i].t = kind

GeneratorFailed == generator_calls = 1 /\ generator_outcome = "error"

----------------------------------------------------------------------------
(* C6 *)

AskedCompare == call = "compare_periods" /\ prompt.kind = "compare_periods"

Metrics == {"clicks", "impressions", "ctr", "position"}

\* the value of a metric over a period, as a fraction: the sum of clicks and
\* impressions, the mean of ctr and position
PeriodValue(df, metric) ==
    [num |-> Total(df, metric),
     den |-> IF metric \in {"ctr", "position"} THEN Len(df) ELSE 1]

\* C6: compare_periods never raises, and percent_changes holds a metric
\* exactly when its previous value is not 0, with the value
\* (current - previous) / previous * 100.
C6_PercentChanges ==
    /\ call = "compare_periods" => exc = "none" /\ out.kind = "text"
    /\ AskedCompare =>
          \A m \in Metrics :
              LET c == PeriodValue(data, m)
                  p == PeriodValue(previous_data, m)
              IN /\ m \in DOMAIN prompt.changes <=> p.num # 0
                 /\ m \in DOMAIN prompt.changes =>
                       /\ prompt.changes[m].den # 0
                       /\ prompt.changes[m].num * (p.num * c.den)
                             = (c.num * p.den - p.num * c.den) * 100 * prompt.changes[m].den

\* a comparison in which the previous clicks are 0 and the previous
\* impressions are not: clicks has no key, impressions has one
C6_Witness ==
    /\ AskedCompare
    /\ Total(previous_data, "clicks") = 0
    /\ Total(previous_data, "impressions") > 0
    /\ Total(data, "clicks") > 0
    /\ "clicks" \notin DOMAIN prompt.changes
    /\ "impressions" \in DOMAIN prompt.changes

----------------------------------------------------------------------------
(* C11 *)

Summarised == call = "_prepare_data_summary"
AppSummarised == call = "app._prepare_data_summary"
PerformanceSummarised == call = "get_performance_summary" /\ exc = "none"

NoDatedRows(df) == \A i \in 1..Len(df) : df[i].date = None

NoDataLine == Text(<<[t |-> "no_data", v |-> "Nessun dato disponibile"]>>)

IsDigest(text) == Len(text.parts) = 1 /\ text.parts[1].t = "digest"

\* C11 as stated: the summary of an empty Dataset has total_clicks = 0,
\* total_impressions = 0, unique_query_count = 0, unique_page_count = 0 and
\* date_range = "N/A", and date_range is "N/A" whenever no row is dated
C11_EmptySummaryZeroed ==
    Summarised =>
        /\ exc = "none"
        /\ IsDigest(out)
        /\ NoDatedRows(data) => out.parts[1].v.date_range.na
        /\ data = <<>> =>
              /\ out.parts[1].v.total_clicks = 0
              /\ out.parts[1].v.total_impressions = 0
              /\ out.parts[1].v.unique_queries = 0
              /\ out.parts[1].v.unique_pages = 0

\* C11 amended: the summary of an empty Dataset is, without raising, the
\* fixed line "Nessun dato disponibile" (in both modules); the performance
\* summary of an empty fetch has total_clicks, total_impressions, avg_ctr,
\* avg_position and total_queries all 0; the digest of a non-empty Dataset has
\* date_range "N/A" exactly when none of its rows is dated
C11_EmptySummaryLine ==
    /\ Summarised =>
          /\ exc = "none"
          /\ data = <<>> => out = NoDataLine
          /\ data # <<>> =>
                /\ IsDigest(out)
                /\ out.parts[1].v.date_range.na <=> NoDatedRows(data)
    /\ AppSummarised =>
          /\ exc = "none"
          /\ data = <<>> => out = NoDataLine
    /\ PerformanceSummarised /\ frame.rows = <<>> =>
          /\ out.total_clicks = 0
          /\ out.total_impressions = 0
          /\ out.avg_ctr = [nan |-> FALSE, hundredths |-> 0]
          /\ out.avg_position = 0
          /\ out.total_queries = 0

\* the summary of an empty Dataset has been produced
C11_Witness == Summarised /\ data = <<>> /\ out = NoDataLine

----------------------------------------------------------------------------
(* C12 *)

AnalysesOfData ==
    {"analyze_traffic_trends", "analyze_keyword_opportunities",
     "analyze_content_performance", "analyze_branded_traffic", "custom_analysis"}

\* the Metrics Source answered with an HttpError or with no rows
NothingFetched ==
    \/ response.kind = "HttpError"
    \/ response.kind = "response" /\ "rows" \notin DOMAIN response
    \/ response.kind = "response" /\ "rows" \in DOMAIN response /\ response.rows = <<>>

\* C12: on an empty Dataset no operation raises and each returns its fixed
\* empty result: the analyses their "not available" notice, the comparison
\* its own notice when either Dataset is empty, the trend direction the
\* "insufficient data" label, the digest the "no data" line, the tabs no
\* frame, the branded split of an empty fetch 0 and 0, the performance
\* summary of an empty fetch all zeros
C12_EmptyInputAccepted ==
    /\ call \in AnalysesOfData /\ data = <<>> =>
          exc = "none" /\ out = NotAvailableText
    /\ call = "compare_periods" /\ (data = <<>> \/ previous_data = <<>>) =>
          exc = "none" /\ out = NotAvailableCompareText
    /\ call = "_calculate_trend" /\ data = <<>> =>
          exc = "none" /\ out = Text(<<[t |-> "trend", v |-> "Dati insufficienti"]>>)
    /\ call = "_prepare_data_summary" /\ data = <<>> =>
          exc = "none" /\ out = NoDataLine
    /\ call = "main" /\ data = <<>> =>
          exc = "none" /\ frame = NoFrame
    /\ call = "get_branded_vs_nonbranded" /\ NothingFetched =>
          exc = "none" /\ out = [kind |-> "dict", branded |-> 0, non_branded |-> 0]
    /\ call = "get_performance_summary" /\ NothingFetched =>
          /\ exc = "none"
          /\ out = [kind |-> "dict", total_clicks |-> 0, total_impressions |-> 0,
                    avg_ctr |-> [nan |-> FALSE, hundredths |-> 0],
                    avg_position |-> 0, total_queries |-> 0]

\* the traffic analysis has returned its notice for an empty Dataset
C12_Witness ==
    call = "analyze_traffic_trends" /\ data = <<>> /\ out = NotAvailableText

----------------------------------------------------------------------------
(* C13 *)

SplitAsked == call = "analyze_branded_traffic" /\ prompt.kind = "branded_traffic"
SummaryComputed ==
    call = "get_performance_summary" /\ exc = "none" /\ frame.rows # <<>>

\* C13: the branded percentage is 0 when the Dataset has no clicks and
\* branded_clicks * 100 / total_clicks otherwise; the average ctr of the
\* performance summary is 0 when the fetch has no impressions; neither is
\* ever undefined
C13_ZeroDenominatorGivesZero ==
    /\ SplitAsked =>
          /\ prompt.branded_percentage.den # 0
          /\ Total(data, "clicks") = 0 => prompt.branded_percentage.num = 0
          /\ Total(data, "clicks") > 0 =>
                prompt.branded_percentage.num * Total(data, "clicks")
                    = 100 * prompt.branded_stats.clicks * prompt.branded_percentage.den
    /\ SummaryComputed =>
          /\ ~out.avg_ctr.nan
          /\ Total(frame.rows, "impressions") = 0 => out.avg_ctr.hundredths = 0

\* a Dataset with rows and no clicks has been split
C13_Witness ==
    SplitAsked /\ data # <<>> /\ Total(data, "clicks") = 0

----------------------------------------------------------------------------
(* C14 *)

\* the step is an analysis that returns on Datasets with rows
AnalysisStep ==
    /\ call' \in Analyses
    /\ exc' = "none"
    /\ data # <<>>
    /\ call' = "compare_periods" => previous_data # <<>>

\* C14: the state of the orchestrator changes only when it is reconfigured
\* (setup_openai), and every analysis call takes the AI path exactly when
\* that state is AI_AVAILABLE, whatever the secrets hold at the time of the
\* call
C14_PathFollowsConstruction ==
    [][/\ call' # "setup_openai" => client' = client /\ api_key' = api_key
       /\ AnalysisStep => (generator_calls' = 1 <=> client)
       /\ call' = "analyze_data" => (generator_calls' = 1 <=> api_key)]_vars

----------------------------------------------------------------------------
(* C15 *)

Fetched == call = "get_search_analytics"

\* execute() raised: an HttpError or any other exception
SourceFailed == response.kind \in {"HttpError", "raises"}

\* C15: an analysis calls the Narrative Generator at most once and a fetch
\* queries the Metrics Source at most once; when the one call fails the
\* invocation returns with the failure reported, as the error text of the
\* analysis or as the error notice of the fetch
C15_OneCallFailureReported ==
    /\ generator_calls <= 1
    /\ Fetched => source_calls <= 1
    /\ generator_outcome = "error" =>
          exc = "none" /\ HasPart(out, "error_marker")
    /\ Fetched /\ SourceFailed =>
          exc = "none" /\ st_error # "none"

----------------------------------------------------------------------------
(* C16 *)

HasRows == response.kind = "response" /\ "rows" \in DOMAIN response

\* some row of the response has fewer or more keys than dimensions were asked
SomeRowMalformed ==
    /\ HasRows
    /\ \E i \in 1..Len(response.rows) :
          Len(response.rows[i].keys) # Len(arg.dimensions)

\* C16: a fetch whose response holds a row with fewer or more keys than
\* requested dimensions (every row with its four metrics) fails with
\* MalformedRowError and returns no frame
C16_MalformedRowRejected ==
    Fetched /\ SomeRowMalformed
            /\ (\A i \in 1..Len(response.rows) : MetricNames \subseteq DOMAIN response.rows[i]) =>
        exc = "MalformedRowError" /\ out = NoReturn

----------------------------------------------------------------------------
(* C17 *)

MetricOr0(row, f) == IF f \in DOMAIN row THEN row[f] ELSE 0

SomeMetricMissing ==
    /\ HasRows
    /\ \E i \in 1..Len(response.rows) : ~(MetricNames \subseteq DOMAIN response.rows[i])

\* C17: a fetch whose rows lack some of clicks, impressions, ctr, position
\* returns, without raising, Records holding 0 for each missing metric
C17_MissingMetricsDefaultToZero ==
    Fetched /\ SomeMetricMissing /\ ~SomeRowMalformed =>
        /\ exc = "none"
        /\ out.kind = "frame"
        /\ Len(out.rows) = Len(response.rows)
        /\ \A i \in 1..Len(response.rows) : \A f \in MetricNames :
              out.rows[i][f] = MetricOr0(response.rows[i], f)

----------------------------------------------------------------------------
(* C18 *)

NoRows ==
    /\ response.kind = "response"
    /\ "rows" \in DOMAIN response => response.rows = <<>>

\* C18: a fetch whose response has no 'rows' key or an empty 'rows' list
\* returns the empty Dataset, raises nothing and shows no error
C18_NoRowsIsEmptyDataset ==
    Fetched /\ NoRows =>
        /\ exc = "none"
        /\ out = [kind |-> "frame", rows |-> <<>>]
        /\ st_error = "none"

\* a response without the 'rows' key has been fetched
C18_Witness ==
    Fetched /\ response.kind = "response" /\ "rows" \notin DOMAIN response
            /\ out = [kind |-> "frame", rows |-> <<>>]

----------------------------------------------------------------------------
(* C19 *)

\* C19: no analysis call changes the caller's Dataset: its Records and
\* their fields are after the call what they were before it
C19_DatasetUntouched ==
    [][call' \in Analyses => data' = data /\ previous_data' = previous_data]_vars

----------------------------------------------------------------------------
(* C20 *)

\* the analysis was called without a client or on an empty Dataset
GuardHolds ==
    \/ ~client
    \/ data = <<>>
    \/ call = "compare_periods" /\ previous_data = <<>>

\* C20: a public analysis of modules/ai_analyzer.py called without a client
\* or on an empty Dataset returns its fixed text without building a prompt
\* and without reaching _get_ai_response; the generator is called only with
\* a client and Datasets that have rows
C20_ClientGuarded ==
    call \in Analyses =>
        /\ GuardHolds =>
              /\ exc = "none"
              /\ prompt = NoPrompt
              /\ generator_calls = 0
              /\ generator_outcome = "none"
              /\ out = IF call = "compare_periods"
                       THEN NotAvailableCompareText ELSE NotAvailableText
        /\ generator_calls = 1 => ~GuardHolds

\* a comparison with a client and an empty previous period returned its notice
C20_Witness ==
    /\ call = "compare_periods"
    /\ client
    /\ data # <<>>
    /\ previous_data = <<>>
    /\ out = NotAvailableCompareText

----------------------------------------------------------------------------
(* C21 *)

\* C21: the service get_service returns was built from the credentials the
\* authenticator holds at that moment, and right after logout there are no
\* credentials, no service and nothing stored in the session, so that
\* get_service returns no service and is_authenticated is false
C21_ServiceOfCurrentCredentials ==
    /\ call = "get_service" =>
          /\ out = service
          /\ credentials = NoCredentials => out = NoService
          /\ out # NoService => out.token = credentials.token
    /\ call = "logout" =>
          /\ credentials = NoCredentials
          /\ service = NoService
          /\ session_state = NoSession
    /\ call = "is_authenticated" /\ credentials = NoCredentials => out = Bool(FALSE)

====
